---- MODULE Spec2Model ----
(***************************************************************************)
(* A model of pydantic_extra_types/coordinate.py: the Coordinate value     *)
(* type, its parser (_validate, _validate_as_tuple, parse_str,             *)
(* parse_tuple), the range stage declared by Latitude and Longitude, and   *)
(* the object operations __str__, __eq__, __hash__ and field assignment.   *)
(*                                                                         *)
(* Numbers: a finite Python float is modelled as a fixed-point integer     *)
(* counting units of 10^-FracDigits degree (20.0 is 20 * Scale).  The      *)
(* non-finite floats (nan, inf) and exponent notation are outside the      *)
(* modelled domain.  Strings are sequences of one-character strings, so    *)
(* float(), str() and split(',') are computed character by character.      *)
(***************************************************************************)
EXTENDS Integers, Sequences, FiniteSets, TLC

VARIABLES objs, last

vars == <<objs, last>>

(* Bounds of the model. *)
MaxObjs == 2
FracDigits == 1

RECURSIVE Pow10(_)
Pow10(k) == IF k = 0 THEN 1 ELSE 10 * Pow10(k - 1)

Scale == Pow10(FracDigits)

Deg(d) == d * Scale

(* A number given in tenths of a degree, e.g. Tenths(456) is 45.6. *)
Tenths(t) == t * (Scale \div 10)

(***************************************************************************)
(* Latitude and Longitude: float subclasses whose class attributes min and *)
(* max are read only by the float schema (ge, le) of the range stage.      *)
(***************************************************************************)
Latitude_min == Deg(-90)
(* Mutant: the upper limit one degree too high. *)
Latitude_max_off_by_one == Deg(91)
Latitude_max == Deg(90)
Longitude_min == Deg(-180)
Longitude_max == Deg(180)

(***************************************************************************)
(* Python values.  One record shape for all of them: t is the type, n the  *)
(* number of a float or int, s the characters of a str, items the elements *)
(* of a tuple or list, or the two fields of a Coordinate.                  *)
(***************************************************************************)
PyFloat(n) == [t |-> "float", n |-> n, s |-> <<>>, items |-> <<>>]
PyInt(d) == [t |-> "int", n |-> Deg(d), s |-> <<>>, items |-> <<>>]
PyStr(s) == [t |-> "str", n |-> 0, s |-> s, items |-> <<>>]
PyTuple(items) == [t |-> "tuple", n |-> 0, s |-> <<>>, items |-> items]
PyList(items) == [t |-> "list", n |-> 0, s |-> <<>>, items |-> items]
PyNone == [t |-> "NoneType", n |-> 0, s |-> <<>>, items |-> <<>>]
PyCoordinate(o) ==
    [t |-> "Coordinate", n |-> 0, s |-> <<>>,
     items |-> <<PyFloat(o.latitude), PyFloat(o.longitude)>>]

(***************************************************************************)
(* Characters and strings.                                                 *)
(***************************************************************************)
Digits == <<"0", "1", "2", "3", "4", "5", "6", "7", "8", "9">>

IsDigit(c) == \E i \in 1..10 : Digits[i] = c

DigitVal(c) == (CHOOSE i \in 1..10 : Digits[i] = c) - 1

Abs(n) == IF n < 0 THEN -n ELSE n

RECURSIVE NatStr(_)
NatStr(n) == IF n < 10 THEN <<Digits[n + 1]>>
             ELSE NatStr(n \div 10) \o <<Digits[(n % 10) + 1]>>

(* The digits of n, left-padded with zeros to width w. *)
RECURSIVE PadStr(_, _)
PadStr(n, w) == IF w = 0 THEN <<>>
                ELSE PadStr(n \div 10, w - 1) \o <<Digits[(n % 10) + 1]>>

RECURSIVE StripZeros(_)
StripZeros(s) == IF Len(s) > 1 /\ s[Len(s)] = "0"
                 THEN StripZeros(SubSeq(s, 1, Len(s) - 1))
                 ELSE s

(***************************************************************************)
(* str(x) of a float: the shortest decimal that reads back as x, always    *)
(* with a fractional part ("20.0", "-123.4").                              *)
(***************************************************************************)
FloatStr(n) ==
    (IF n < 0 THEN <<"-">> ELSE <<>>)
        \o NatStr(Abs(n) \div Scale)
        \o <<".">>
        \o StripZeros(PadStr(Abs(n) % Scale, FracDigits))

(* str.split(','): the maximal comma-free pieces, empty ones included. *)
RECURSIVE Split(_)
Split(s) ==
    IF \A i \in 1..Len(s) : s[i] # ","
    THEN <<s>>
    ELSE LET k == CHOOSE i \in 1..Len(s) :
                      s[i] = "," /\ \A j \in 1..(i - 1) : s[j] # ","
         IN <<SubSeq(s, 1, k - 1)>> \o Split(SubSeq(s, k + 1, Len(s)))

RECURSIVE LStrip(_)
LStrip(s) == IF Len(s) > 0 /\ s[1] = " " THEN LStrip(Tail(s)) ELSE s

RECURSIVE RStrip(_)
RStrip(s) == IF Len(s) > 0 /\ s[Len(s)] = " "
             THEN RStrip(SubSeq(s, 1, Len(s) - 1))
             ELSE s

RECURSIVE DigitsVal(_)
DigitsVal(s) == IF Len(s) = 0 THEN 0
                ELSE 10 * DigitsVal(SubSeq(s, 1, Len(s) - 1)) + DigitVal(s[Len(s)])

AllDigits(s) == \A i \in 1..Len(s) : IsDigit(s[i])

(* The fractional digits f as a count of 10^-FracDigits units; digits past *)
(* FracDigits are representable only when they are zeros.                  *)
FracVal(f) ==
    DigitsVal(SubSeq(f, 1, IF Len(f) < FracDigits THEN Len(f) ELSE FracDigits))
        * Pow10(IF Len(f) < FracDigits THEN FracDigits - Len(f) ELSE 0)

(***************************************************************************)
(* float(s) of a str: surrounding whitespace is stripped, then an optional *)
(* sign, then digits with an optional point; at least one digit.  Anything *)
(* else raises ValueError.                                                 *)
(***************************************************************************)
Decimal(ip, fp) ==
    IF AllDigits(ip) /\ AllDigits(fp) /\ Len(ip) + Len(fp) > 0
    THEN [ok |-> TRUE, n |-> DigitsVal(ip) * Scale + FracVal(fp), err |-> ""]
    ELSE [ok |-> FALSE, n |-> 0, err |-> "ValueError"]

(* The place of the first point of u, or one past its end. *)
PointPos(u) ==
    IF \E i \in 1..Len(u) : u[i] = "."
    THEN CHOOSE i \in 1..Len(u) : u[i] = "." /\ \A j \in 1..(i - 1) : u[j] # "."
    ELSE Len(u) + 1

SplitAtPoint(u, p) == Decimal(SubSeq(u, 1, p - 1), SubSeq(u, p + 1, Len(u)))

Unsigned(u) == SplitAtPoint(u, PointPos(u))

Negated(r) == [r EXCEPT !.n = -r.n]

Signed(t) ==
    IF Len(t) > 0 /\ t[1] = "-" THEN Negated(Unsigned(Tail(t)))
    ELSE IF Len(t) > 0 /\ t[1] = "+" THEN Unsigned(Tail(t))
    ELSE Unsigned(t)

FloatOfStr(s) == Signed(RStrip(LStrip(s)))

(***************************************************************************)
(* float(x), as called by Latitude(x) and Longitude(x): a float subclass   *)
(* constructor, which converts and never looks at min or max.              *)
(***************************************************************************)
float(x) ==
    CASE x.t = "float" -> [ok |-> TRUE, n |-> x.n, err |-> ""]
      [] x.t = "int" -> [ok |-> TRUE, n |-> x.n, err |-> ""]
      [] x.t = "str" -> FloatOfStr(x.s)
      [] OTHER -> [ok |-> FALSE, n |-> 0, err |-> "TypeError"]

(***************************************************************************)
(* What a validator receives: the ArgsKwargs of a constructor call         *)
(* Coordinate(args..., kwargs...), or the plain value of a model field.    *)
(* kwargs is the sequence of its (name, value) items; names are distinct.  *)
(***************************************************************************)
ArgsKwargs(args, kwargs) ==
    [t |-> "ArgsKwargs", args |-> args, kwargs |-> kwargs, val |-> PyNone]
Plain(v) == [t |-> "value", args |-> <<>>, kwargs |-> <<>>, val |-> v]

Kw(k, v) == [k |-> k, v |-> v]

Keys(kwargs) == {kwargs[i].k : i \in 1..Len(kwargs)}

Get(kwargs, name) == kwargs[CHOOSE i \in 1..Len(kwargs) : kwargs[i].k = name].v

(* The outcome of the parsing stage: a pair of Python values, or an error. *)
Returns(a, b) == [ok |-> TRUE, err |-> "", latitude |-> a, longitude |-> b]
Raises(kind) == [ok |-> FALSE, err |-> kind, latitude |-> PyNone, longitude |-> PyNone]

(***************************************************************************)
(* Coordinate.parse_tuple: Latitude(value[0]), Longitude(value[1]) for a   *)
(* sequence of length 2, coordinate_error otherwise.  The two float        *)
(* conversions are not guarded: their ValueError or TypeError propagates.  *)
(***************************************************************************)
Converted(_lat, _long) ==
    IF ~_lat.ok THEN Raises(_lat.err)
    ELSE IF ~_long.ok THEN Raises(_long.err)
    ELSE Returns(PyFloat(_lat.n), PyFloat(_long.n))

(* Mutant: the tuple parser itself rejects a latitude outside its range. *)
parse_tuple_ranged(value) ==
    IF Len(value) = 2
    THEN IF float(value[1]).ok /\ Abs(float(value[1]).n) > Deg(90)
         THEN Raises("coordinate_error")
         ELSE Converted(float(value[1]), float(value[2]))
    ELSE Raises("coordinate_error")

parse_tuple(value) ==
    IF Len(value) = 2
    THEN Converted(float(value[1]), float(value[2]))
    ELSE Raises("coordinate_error")

(***************************************************************************)
(* Coordinate.parse_str: float() of every piece of value.split(','); a     *)
(* ValueError from float(), and the coordinate_error raised for a length   *)
(* other than 2 (itself a ValueError), are caught and raised again as      *)
(* coordinate_error.                                                       *)
(***************************************************************************)
FloatEach(pieces) == [i \in 1..Len(pieces) |-> FloatOfStr(pieces[i])]

Checked(_coord) ==
    IF \E i \in 1..Len(_coord) : ~_coord[i].ok THEN Raises("coordinate_error")
    ELSE IF Len(_coord) # 2 THEN Raises("coordinate_error")
    ELSE Returns(PyFloat(_coord[1].n), PyFloat(_coord[2].n))

(* Mutant: the two pieces are returned in the wrong order. *)
parse_str_swapped(value) ==
    Checked([i \in 1..Len(Split(value)) |->
                FloatOfStr(Split(value)[Len(Split(value)) + 1 - i])])

parse_str(value) == Checked(FloatEach(Split(value)))

(* The isinstance chain at the end of _validate_as_tuple. *)
Dispatch(arg) ==
    CASE arg.t \in {"tuple", "list"} -> parse_tuple(arg.items)
      [] arg.t = "str" -> parse_str(arg.s)
      [] arg.t = "Coordinate" -> Returns(arg.items[1], arg.items[2])
      [] OTHER -> Raises("coordinate_error")

(***************************************************************************)
(* Coordinate._validate_as_tuple, given its positional and keyword values.  *)
(***************************************************************************)
(* Mutant: no default for empty input. *)
_validate_as_tuple_no_default(args, kwargs) ==
    IF Len(kwargs) > 0
    THEN IF Keys(kwargs) # {"latitude", "longitude"}
         THEN Raises("coordinate_error")
         ELSE Returns(Get(kwargs, "latitude"), Get(kwargs, "longitude"))
    ELSE IF Len(args) = 0 \/ Len(args) > 2 THEN Raises("coordinate_error")
    ELSE Dispatch(IF Len(args) = 2 THEN PyTuple(<<args[1], args[2]>>) ELSE args[1])

(* Mutant: the positional count is checked before the keywords. *)
_validate_as_tuple_count_first(args, kwargs) ==
    IF Len(args) > 2 THEN Raises("coordinate_error")
    ELSE IF Len(kwargs) > 0
    THEN IF Keys(kwargs) # {"latitude", "longitude"}
         THEN Raises("coordinate_error")
         ELSE Returns(Get(kwargs, "latitude"), Get(kwargs, "longitude"))
    ELSE IF Len(args) = 0 THEN Returns(PyFloat(0), PyFloat(0))
    ELSE Dispatch(IF Len(args) = 2 THEN PyTuple(<<args[1], args[2]>>) ELSE args[1])

_validate_as_tuple(args, kwargs) ==
    IF Len(kwargs) > 0
    THEN IF Keys(kwargs) # {"latitude", "longitude"}
         THEN Raises("coordinate_error")
         ELSE Returns(Get(kwargs, "latitude"), Get(kwargs, "longitude"))
    ELSE IF Len(args) = 0 THEN Returns(PyFloat(0), PyFloat(0))
    ELSE IF Len(args) > 2 THEN Raises("coordinate_error")
    ELSE Dispatch(IF Len(args) = 2 THEN PyTuple(<<args[1], args[2]>>) ELSE args[1])

(***************************************************************************)
(* Coordinate._validate: the before-validator.  Its result is the dict     *)
(* {'latitude': ..., 'longitude': ...} handed to the inner schema.         *)
(***************************************************************************)
_validate(value) ==
    IF value.t = "ArgsKwargs"
    THEN _validate_as_tuple(value.args, value.kwargs)
    ELSE _validate_as_tuple(<<value.val>>, <<>>)

(***************************************************************************)
(* The range stage: core_schema.float_schema(ge=cls.min, le=cls.max) of a  *)
(* field.  A float, an int or a numeric string is taken as a float, then   *)
(* compared with the bounds, both inclusive.                               *)
(***************************************************************************)
Constrained(f, ge, le) ==
    IF ~f.ok
    THEN [ok |-> FALSE, n |-> 0,
          err |-> IF f.err = "ValueError" THEN "float_parsing" ELSE "float_type"]
    ELSE IF f.n < ge THEN [ok |-> FALSE, n |-> 0, err |-> "greater_than_equal"]
    ELSE IF f.n > le THEN [ok |-> FALSE, n |-> 0, err |-> "less_than_equal"]
    ELSE [ok |-> TRUE, n |-> f.n, err |-> ""]

float_schema(x, ge, le) == Constrained(float(x), ge, le)

Latitude_schema(x) == float_schema(x, Latitude_min, Latitude_max)

Longitude_schema(x) == float_schema(x, Longitude_min, Longitude_max)

(***************************************************************************)
(* Construction, as Coordinate.__get_pydantic_core_schema__ composes it:   *)
(* the before-validator _validate runs first; if it raises, the inner      *)
(* schema never runs; otherwise the inner dataclass schema validates the   *)
(* two fields of the dict it returned and collects their errors.           *)
(*   stage   the stage that decided the outcome                            *)
(*   parsed  the pair the parsing stage returned                           *)
(*   checked the values the field schemas were applied to                  *)
(***************************************************************************)
Fields(p, x, y, a, b) ==
    [ok |-> a.ok /\ b.ok, stage |-> "range",
     errs |-> {a.err, b.err} \ {""},
     parsed |-> <<p.latitude, p.longitude>>,
     checked |-> <<x, y>>,
     latitude |-> IF a.ok /\ b.ok THEN a.n ELSE 0,
     longitude |-> IF a.ok /\ b.ok THEN b.n ELSE 0]

(* The inner schema, applied to the dict d of the before-validator. *)
Inner(d) ==
    Fields(d, d.latitude, d.longitude,
           Latitude_schema(d.latitude), Longitude_schema(d.longitude))

Before(p) ==
    IF ~p.ok
    THEN [ok |-> FALSE, stage |-> "parse", errs |-> {p.err},
          parsed |-> <<>>, checked |-> <<>>, latitude |-> 0, longitude |-> 0]
    ELSE Inner(p)

Coordinate(value) == Before(_validate(value))

(***************************************************************************)
(* Operations on a constructed object o = [latitude, longitude].           *)
(***************************************************************************)
(* Mutant: the fields are written in the wrong order. *)
__str___swapped(o) == FloatStr(o.longitude) \o <<",">> \o FloatStr(o.latitude)

__str__(o) == FloatStr(o.latitude) \o <<",">> \o FloatStr(o.longitude)

(* Mutant: only the latitudes are compared. *)
__eq___latitude_only(o, other) ==
    /\ other.t = "Coordinate"
    /\ o.latitude = other.items[1].n

__eq__(o, other) ==
    /\ other.t = "Coordinate"
    /\ o.latitude = other.items[1].n
    /\ o.longitude = other.items[2].n

(* hash((latitude, longitude)): a function of the two numbers alone.  The  *)
(* builtin is abstracted by a small polynomial hash, so collisions exist.  *)
HashOfTuple(t) == (31 * (t[1] % 1009) + (t[2] % 1009)) % 1009

__hash__(o) == HashOfTuple(<<o.latitude, o.longitude>>)

(* Field assignment: the dataclass is declared without frozen=True and     *)
(* without validate_assignment, so the new value is stored as given.       *)
__setattr__(o, name, v) == [o EXCEPT ![name] = v]

(***************************************************************************)
(* The inputs the operations are tried on.                                 *)
(***************************************************************************)
(* Numeric pairs: the limits of both ranges, their first values outside,   *)
(* and interior points.                                                    *)
Pairs ==
    {<<Deg(lat), Deg(10)>> : lat \in {-91, -90, 20, 90, 91}}
        \cup {<<Deg(20), Deg(lng)>> : lng \in {-181, -180, 180, 181}}
        \cup {<<Tenths(456), Tenths(-1234)>>}

PairStr(a, b) == FloatStr(a) \o <<",">> \o FloatStr(b)

(* The six encodings of the pair (a, b): a tuple, a list, two positional   *)
(* values, the string "a,b", the keyword pair, an existing Coordinate.     *)
EncTuple(a, b) == ArgsKwargs(<<PyTuple(<<PyFloat(a), PyFloat(b)>>)>>, <<>>)
EncList(a, b) == ArgsKwargs(<<PyList(<<PyFloat(a), PyFloat(b)>>)>>, <<>>)
EncPositional(a, b) == ArgsKwargs(<<PyFloat(a), PyFloat(b)>>, <<>>)
EncString(a, b) == ArgsKwargs(<<PyStr(PairStr(a, b))>>, <<>>)
EncKeywords(a, b) ==
    ArgsKwargs(<<>>, <<Kw("latitude", PyFloat(a)), Kw("longitude", PyFloat(b))>>)
EncCoordinate(a, b) ==
    ArgsKwargs(<<PyCoordinate([latitude |-> a, longitude |-> b])>>, <<>>)

EncodingsOf(a, b) ==
    {EncTuple(a, b), EncList(a, b), EncPositional(a, b), EncString(a, b),
     EncKeywords(a, b), EncCoordinate(a, b)}

Ten == <<"t", "e", "n">>
KwBoth == <<Kw("latitude", PyFloat(Deg(20))), Kw("longitude", PyFloat(Deg(10)))>>

(* Other well-formed inputs: a model field's plain value, numeric strings  *)
(* and ints as elements, a string with spaces, keywords in either order.   *)
OtherInputs ==
    {Plain(PyTuple(<<PyFloat(Tenths(456)), PyFloat(Tenths(-1234))>>)),
     Plain(PyStr(FloatStr(Tenths(456)) \o <<",", " ">> \o FloatStr(Tenths(-1234)))),
     Plain(PyTuple(<<PyFloat(Deg(-91)), PyFloat(0)>>)),
     Plain(PyCoordinate([latitude |-> Deg(20), longitude |-> Deg(10)])),
     ArgsKwargs(<<PyTuple(<<PyStr(FloatStr(Deg(20))), PyFloat(Deg(10))>>)>>, <<>>),
     ArgsKwargs(<<PyTuple(<<PyInt(20), PyInt(10)>>)>>, <<>>),
     ArgsKwargs(<<PyStr(<<"9", "0", ",", "1", "8", "0">>)>>, <<>>),
     ArgsKwargs(<<PyStr(FloatStr(Deg(20))), PyStr(FloatStr(Deg(10)))>>, <<>>),
     ArgsKwargs(<<>>, <<Kw("longitude", PyFloat(Deg(10))), Kw("latitude", PyFloat(Deg(20)))>>),
     ArgsKwargs(<<>>, <<Kw("latitude", PyStr(FloatStr(Deg(20)))), Kw("longitude", PyInt(10))>>),
     ArgsKwargs(<<>>, <<Kw("latitude", PyStr(Ten)), Kw("longitude", PyFloat(Deg(10)))>>),
     ArgsKwargs(<<>>, <<Kw("latitude", PyNone), Kw("longitude", PyFloat(Deg(181)))>>)}

(* Empty input. *)
EmptyInput == ArgsKwargs(<<>>, <<>>)

(* More than two positional values, without and with keywords. *)
ManyPositional ==
    {ArgsKwargs(<<PyFloat(Deg(20)), PyFloat(Deg(10)), PyFloat(Deg(30))>>, <<>>),
     ArgsKwargs(<<PyFloat(Deg(1)), PyFloat(Deg(2)), PyFloat(Deg(3))>>, KwBoth),
     ArgsKwargs(<<PyFloat(Deg(1)), PyFloat(Deg(2)), PyFloat(Deg(3)), PyFloat(Deg(4))>>,
                <<Kw("latitude", PyFloat(Deg(91))), Kw("longitude", PyFloat(Deg(10)))>>)}

(* A non-empty keyword set that is not {latitude, longitude}. *)
BadKeywords ==
    {ArgsKwargs(<<>>, <<Kw("lat", PyFloat(Deg(20))), Kw("lng", PyFloat(Deg(10)))>>),
     ArgsKwargs(<<>>, <<Kw("latitude", PyFloat(Deg(20)))>>),
     ArgsKwargs(<<>>, KwBoth \o <<Kw("altitude", PyFloat(Deg(5)))>>),
     ArgsKwargs(<<PyFloat(Deg(20)), PyFloat(Deg(10))>>, <<Kw("longitude", PyFloat(Deg(10)))>>)}

(* Strings that are not two numeric pieces. *)
BadStrings ==
    {Ten \o <<",">>,
     Ten \o <<",">> \o FloatStr(Deg(10)),
     PairStr(Deg(20), Deg(10)) \o <<",">> \o FloatStr(Deg(30)),
     FloatStr(Deg(20)),
     <<>>,
     <<",">>,
     <<"2", "0", " ", "1", "0">>}

(* Tuples and lists whose length is not 2. *)
BadLengths ==
    {PyTuple(<<>>),
     PyTuple(<<PyFloat(Deg(10))>>),
     PyTuple(<<PyFloat(Deg(20)), PyFloat(Deg(10)), PyFloat(Deg(30))>>),
     PyList(<<PyFloat(Deg(10))>>),
     PyList(<<PyFloat(Deg(20)), PyFloat(Deg(10)), PyFloat(Deg(30))>>)}

(* A single positional value of an unsupported type. *)
BadTypes == {PyFloat(Deg(2)), PyInt(2), PyNone}

(* Two elements, one of them not convertible by float(). *)
BadElements ==
    {PyTuple(<<PyStr(Ten), PyFloat(Deg(10))>>),
     PyList(<<PyFloat(Deg(20)), PyStr(Ten)>>),
     PyTuple(<<PyNone, PyFloat(Deg(10))>>),
     PyTuple(<<PyFloat(Deg(20)), PyTuple(<<>>)>>)}

Single(vs) == {ArgsKwargs(<<v>>, <<>>) : v \in vs}

(* A malformed positional value accompanied by both keywords. *)
ShadowedByKeywords ==
    {ArgsKwargs(<<PyStr(Ten \o <<",">>)>>, KwBoth),
     ArgsKwargs(<<PyTuple(<<PyFloat(Deg(10))>>)>>, KwBoth),
     ArgsKwargs(<<PyNone>>, KwBoth)}

StaticInputs ==
    UNION {EncodingsOf(pr[1], pr[2]) \ {EncCoordinate(pr[1], pr[2])} : pr \in Pairs}
        \cup OtherInputs \cup {EmptyInput} \cup ManyPositional \cup BadKeywords
        \cup Single({PyStr(s) : s \in BadStrings}) \cup Single(BadLengths)
        \cup Single(BadTypes) \cup Single(BadElements)
        \cup {ArgsKwargs(<<PyStr(Ten), PyFloat(Deg(10))>>, <<>>), Plain(PyInt(2)),
              Plain(PyTuple(<<>>))}
        \cup ShadowedByKeywords

(* An existing Coordinate can be passed only while it exists. *)
Inputs(heap) ==
    StaticInputs \cup {ArgsKwargs(<<PyCoordinate(heap[i])>>, <<>>) : i \in 1..Len(heap)}

(* Values assigned to a field after construction. *)
AssignVals == {Deg(100)}

(***************************************************************************)
(* State: objs, the Coordinate objects alive, and last, the record of the  *)
(* last operation: its name, its input, and what it returned.              *)
(***************************************************************************)
NoObj == [latitude |-> 0, longitude |-> 0]
NoRes ==
    [ok |-> FALSE, stage |-> "", errs |-> {}, parsed |-> <<>>, checked |-> <<>>,
     latitude |-> 0, longitude |-> 0]
NoOp ==
    [op |-> "none", value |-> Plain(PyNone), res |-> NoRes, self |-> NoObj,
     other |-> PyNone, name |-> "", text |-> <<>>, flag |-> FALSE, num |-> 0]

Init == objs = <<>> /\ last = NoOp

Kept(heap, r) ==
    IF r.ok THEN Append(heap, [latitude |-> r.latitude, longitude |-> r.longitude])
    ELSE heap

(* c = Coordinate(...): on success the new object is kept. *)
Construct ==
    /\ Len(objs) < MaxObjs
    /\ \E value \in Inputs(objs) :
          /\ last' = [NoOp EXCEPT !.op = "construct", !.value = value,
                                  !.res = Coordinate(value)]
          /\ objs' = Kept(objs, last'.res)

(* c.latitude = v or c.longitude = v. *)
SetAttr ==
    \E i \in 1..Len(objs), name \in {"latitude", "longitude"}, v \in AssignVals :
        /\ objs' = [objs EXCEPT ![i] = __setattr__(objs[i], name, v)]
        /\ last' = [NoOp EXCEPT !.op = "setattr", !.self = objs[i], !.name = name, !.num = v]

(* str(c). *)
Str ==
    \E i \in 1..Len(objs) :
        /\ last' = [NoOp EXCEPT !.op = "str", !.self = objs[i], !.text = __str__(objs[i])]
        /\ UNCHANGED objs

(* c == other, for another object alive or a value that is no Coordinate. *)
Eq ==
    \E i \in 1..Len(objs) :
        \E other \in {PyCoordinate(objs[j]) : j \in 1..Len(objs)}
                        \cup {PyTuple(<<PyFloat(objs[i].latitude), PyFloat(objs[i].longitude)>>),
                              PyStr(__str__(objs[i]))} :
            /\ last' = [NoOp EXCEPT !.op = "eq", !.self = objs[i], !.other = other,
                                    !.flag = __eq__(objs[i], other)]
            /\ UNCHANGED objs

(* hash(c). *)
Hash ==
    \E i \in 1..Len(objs) :
        /\ last' = [NoOp EXCEPT !.op = "hash", !.self = objs[i], !.num = __hash__(objs[i])]
        /\ UNCHANGED objs

Next == Construct \/ SetAttr \/ Str \/ Eq \/ Hash

Spec == Init /\ [][Next]_vars

(***************************************************************************)
(* Properties.                                                             *)
(***************************************************************************)
Constructed == last.op = "construct"

Result == [latitude |-> last.res.latitude, longitude |-> last.res.longitude]

InRange(a, b) == Deg(-90) <= a /\ a <= Deg(90) /\ Deg(-180) <= b /\ b <= Deg(180)

(* C1: every construction either fails or yields a Coordinate with         *)
(* -90 <= latitude <= 90 and -180 <= longitude <= 180; the limits          *)
(* themselves are accepted and the first values beyond them are rejected,  *)
(* whichever encoding carries them.                                        *)
C1_ConstructedInRange ==
    Constructed =>
        /\ last.res.ok => InRange(last.res.latitude, last.res.longitude)
        /\ \A pr \in Pairs :
              last.value \in EncodingsOf(pr[1], pr[2])
                  => (last.res.ok <=> InRange(pr[1], pr[2]))

C1_Witness ==
    /\ Constructed /\ last.res.ok
    /\ last.value = EncTuple(Deg(90), Deg(10))
    /\ last.res.latitude = Deg(90)

(* C2: a Coordinate is immutable: no step changes the latitude or the      *)
(* longitude of an object that exists.                                     *)
C2_Immutable ==
    [][\A i \in 1..Len(objs) : i <= Len(objs') => objs'[i] = objs[i]]_vars

(* C3: every failure of the parsing stage is of the kind coordinate_error. *)
C3_SingleErrorKind ==
    (Constructed /\ ~last.res.ok /\ last.res.stage = "parse")
        => last.res.errs = {"coordinate_error"}

(* The malformed shapes of C4, read off the input alone. *)
NumericPieces(s) ==
    /\ Len(Split(s)) = 2
    /\ \A i \in 1..Len(Split(s)) : FloatOfStr(Split(s)[i]).ok

Malformed(value) ==
    /\ value.t = "ArgsKwargs"
    /\ \/ Len(value.args) > 2
       \/ Len(value.kwargs) > 0 /\ Keys(value.kwargs) # {"latitude", "longitude"}
       \/ /\ Len(value.args) = 1
          /\ \/ value.args[1].t = "str" /\ ~NumericPieces(value.args[1].s)
             \/ value.args[1].t \in {"tuple", "list"} /\ Len(value.args[1].items) # 2
             \/ value.args[1].t \notin {"tuple", "list", "str", "Coordinate"}

(* C4: construction fails for every malformed shape: more than two         *)
(* positional values, keyword names other than latitude and longitude, a   *)
(* string that is not two numeric pieces, a tuple or list whose length is  *)
(* not 2, a single positional value of an unsupported type.                *)
C4_MalformedFails ==
    (Constructed /\ Malformed(last.value)) => ~last.res.ok

(* C5: empty input (no positional and no keyword values) yields the pair   *)
(* (0.0, 0.0) and never an error.                                          *)
C5_EmptyIsNullIsland ==
    (Constructed /\ last.value.t = "ArgsKwargs"
        /\ Len(last.value.args) = 0 /\ Len(last.value.kwargs) = 0)
        => /\ last.res.ok
           /\ last.res.parsed = <<PyFloat(0), PyFloat(0)>>
           /\ last.res.latitude = 0 /\ last.res.longitude = 0

C5_Witness ==
    Constructed /\ last.value = EmptyInput /\ last.res.ok /\ \E i \in 1..Len(objs) : objs[i] = Result

(* C6: the range check is a separate stage after parsing: an error of the  *)
(* parsing stage is reported without the range check having run; the       *)
(* range check is applied to the pair the parser returned; the parser      *)
(* accepts every well-shaped encoding of a numeric pair, in range or not,  *)
(* and an out-of-range value is then rejected by the numeric-range check   *)
(* (greater_than_equal, less_than_equal), never as coordinate_error.       *)
C6_RangeAfterParsing ==
    Constructed =>
        /\ last.res.stage \in {"parse", "range"}
        /\ last.res.stage = "parse" => (~last.res.ok /\ last.res.checked = <<>>)
        /\ last.res.stage = "range" => last.res.checked = last.res.parsed
        /\ "coordinate_error" \in last.res.errs => last.res.stage = "parse"
        /\ \A pr \in Pairs :
              last.value \in EncodingsOf(pr[1], pr[2]) =>
                  /\ last.res.stage = "range"
                  /\ last.res.parsed = <<PyFloat(pr[1]), PyFloat(pr[2])>>
                  /\ ~InRange(pr[1], pr[2]) =>
                        /\ ~last.res.ok
                        /\ last.res.errs # {}
                        /\ last.res.errs \subseteq {"greater_than_equal", "less_than_equal"}

C6_Witness ==
    /\ Constructed /\ ~last.res.ok
    /\ last.value = EncTuple(Deg(-91), Deg(10))
    /\ last.res.stage = "range"
    /\ last.res.errs = {"greater_than_equal"}

(* C7: the tuple, the list, the two positional values, the string "a,b",   *)
(* the keyword pair and an existing Coordinate holding (a, b), for         *)
(* in-range a and b, each yield a Coordinate with latitude a and longitude *)
(* b, equal to the Coordinate (a, b).                                      *)
C7_EncodingsAgree ==
    Constructed =>
        \A pr \in Pairs :
            (InRange(pr[1], pr[2]) /\ last.value \in EncodingsOf(pr[1], pr[2])) =>
                /\ last.res.ok
                /\ last.res.latitude = pr[1] /\ last.res.longitude = pr[2]
                /\ __eq__(Result, PyCoordinate([latitude |-> pr[1], longitude |-> pr[2]]))

C7_Witness ==
    /\ Constructed /\ last.res.ok
    /\ last.value = EncCoordinate(Tenths(456), Tenths(-1234))
    /\ Len(objs) = 2 /\ objs[1] = objs[2]

(* C8: for every Coordinate c that construction yields, str(c) splits on   *)
(* ',' into the two fields' texts, and constructing from str(c) succeeds   *)
(* and yields a Coordinate equal to c.                                     *)
C8_StrRoundTrip ==
    (Constructed /\ last.res.ok) =>
        /\ Split(__str__(Result)) = <<FloatStr(Result.latitude), FloatStr(Result.longitude)>>
        /\ Coordinate(ArgsKwargs(<<PyStr(__str__(Result))>>, <<>>)).ok
        /\ __eq__(Result,
                  PyCoordinate(Coordinate(ArgsKwargs(<<PyStr(__str__(Result))>>, <<>>))))

C8_Witness ==
    /\ Constructed /\ last.res.ok
    /\ last.value = EncList(Tenths(456), Tenths(-1234))
    /\ __str__(Result) = <<"4", "5", ".", "6", ",", "-", "1", "2", "3", ".", "4">>

(* C9: c == other holds exactly when other is a Coordinate with the same   *)
(* latitude and the same longitude, and equal Coordinates have equal       *)
(* hashes.                                                                 *)
C9_StructuralEquality ==
    last.op = "eq" =>
        /\ last.flag <=>
              /\ last.other.t = "Coordinate"
              /\ last.other.items[1].n = last.self.latitude
              /\ last.other.items[2].n = last.self.longitude
        /\ last.flag =>
              __hash__(last.self)
                  = __hash__([latitude |-> last.other.items[1].n,
                              longitude |-> last.other.items[2].n])

C9_Witness ==
    /\ last.op = "eq" /\ last.flag
    /\ Len(objs) = 2 /\ objs[1] = objs[2]
    /\ last.self = objs[1]

(* C10: when the keyword set is exactly {latitude, longitude} the parsing  *)
(* stage returns the two keyword values as given, whatever positional      *)
(* values accompany them: no count error, no tuple or string parsing.      *)
C10_KeywordsFirst ==
    (Constructed /\ last.value.t = "ArgsKwargs"
        /\ Keys(last.value.kwargs) = {"latitude", "longitude"})
        => /\ last.res.stage = "range"
           /\ last.res.parsed = <<Get(last.value.kwargs, "latitude"),
                                  Get(last.value.kwargs, "longitude")>>
           /\ "coordinate_error" \notin last.res.errs

C10_Witness ==
    /\ Constructed /\ last.res.ok
    /\ Len(last.value.args) > 2
    /\ Keys(last.value.kwargs) = {"latitude", "longitude"}
    /\ last.res.latitude = Deg(20) /\ last.res.longitude = Deg(10)
====
